---------------------------- MODULE Spec2Model ----------------------------
(***************************************************************************)
(* A model of keras_cv/models/mobilenet_v2.py: the channel-depth rounding  *)
(* closure Depth, the padding-amount closure CorrectPad and the inverted   *)
(* residual block builder InvertedResBlock with its inner apply.           *)
(*                                                                         *)
(* Python values are modelled exactly where the code computes with them:   *)
(*   - an optional value is <<>> (None) or <<v>>;                          *)
(*   - a number handed to Depth's apply is the rational x = xn/TargetDen,  *)
(*     so that int(...) truncation and the 0.9 comparison are computed,    *)
(*     not assumed.  The arithmetic is exact: for the halves and integers  *)
(*     modelled it is what the float code computes; for an x that has no   *)
(*     exact float (a third) the float product 0.9 * x can exceed 9x/10    *)
(*     by a rounding error, which changes the comparison only when the     *)
(*     candidate equals 9x/10 exactly;                                     *)
(*   - a name that a function body assigns is a local of that function,    *)
(*     unbound until the assignment runs (reading it before raises         *)
(*     UnboundLocalError);                                                 *)
(*   - the layers of the numeric backend are opaque: the model follows     *)
(*     only the channel count and the spatial size through them.           *)
(***************************************************************************)
EXTENDS Integers, Sequences, FiniteSets

VARIABLES depth, dcall, dprev, pad, pcall, block, bcall

vars == <<depth, dcall, dprev, pad, pcall, block, bcall>>

-----------------------------------------------------------------------------
(* Bounds of the model *)

\* targets are the rationals xn/TargetDen
TargetDen == 2
\* largest target of the depth-rounding specification (besides 100)
MaxTarget == 40
MaxDivisor == 9
MaxMinValue == 18
\* min_value ranges from -NegMinValue
NegMinValue == 2
\* bounds of the monotonicity specification (pairs of calls)
MonoMaxTarget == 24
MonoMaxDivisor == 6
MonoMaxMinValue == 11
\* bounds of the padding specification
MaxKernel == 5
MaxDim == 6
\* bounds of the block specification
MaxBlockDim == 3
MaxBlockId == 2

(* Program constants *)

\* Depth(divisor=8, ...)
DefaultDivisor == 8
\* the second positional argument of Depth(pointwise_conv_filters, 8)
PointwiseDepthArg == 8
\* CorrectPad(3) and DepthwiseConv2D(kernel_size=3)
DepthwiseKernel == 3

-----------------------------------------------------------------------------
(* Python values *)

None == <<>>

Some(v) == <<v>>

IsNone(o) == o = <<>>

Val(o) == o[1]

Max(a, b) == IF a >= b THEN a ELSE b

\* the outcome of a call: a returned value or a raised exception
Return(v) == [kind |-> "return", value |-> v]

Raise(e) == [kind |-> "raise", exc |-> e]

NoCall == [kind |-> "none"]

-----------------------------------------------------------------------------
(* Depth: lines 114-140 *)

\* Depth(divisor, min_value): the closure it returns holds divisor and the
\* min_value after the None default (lines 129-130); arg keeps the argument.
Depth(divisor, min_value) ==
    [divisor   |-> divisor,
     min_value |-> IF IsNone(min_value) THEN divisor ELSE Val(min_value),
     arg       |-> min_value]

\* int(x + divisor / 2) for x = xn/TargetDen >= 0: truncation of
\* (2 xn + divisor TargetDen) / (2 TargetDen)
IntOfXPlusHalf(divisor, xn) ==
    (2 * xn + divisor * TargetDen) \div (2 * TargetDen)

\* a plausible slip: rounding down instead of to the nearest multiple
Depth_candidate_floor(divisor, min_value, xn) ==
    Max(min_value, ((xn \div TargetDen) \div divisor) * divisor)

\* a plausible slip: the quotient is not multiplied back by divisor
Depth_candidate_quotient(divisor, min_value, xn) ==
    Max(min_value, IntOfXPlusHalf(divisor, xn) \div divisor)

\* line 133: new_x = max(min_value, int(x + divisor / 2) // divisor * divisor)
Depth_candidate(divisor, min_value, xn) ==
    Max(min_value, (IntOfXPlusHalf(divisor, xn) \div divisor) * divisor)

\* line 136: new_x < 0.9 * x
Depth_below(new_x, xn) == 10 * TargetDen * new_x < 9 * xn

\* a plausible slip: the correction is left out
Depth_apply_uncorrected(divisor, min_value, xn) ==
    Depth_candidate(divisor, min_value, xn)

\* a plausible slip: the correction steps by two divisors
Depth_apply_twosteps(divisor, min_value, xn) ==
    LET new_x == Depth_candidate(divisor, min_value, xn)
    IN  IF Depth_below(new_x, xn) THEN new_x + 2 * divisor ELSE new_x

\* lines 132-138: apply(x)
Depth_apply(divisor, min_value, xn) ==
    LET new_x == Depth_candidate(divisor, min_value, xn)
    IN  IF Depth_below(new_x, xn) THEN new_x + divisor ELSE new_x

\* one call of the closure d on x = xn/TargetDen, with what it computed
Depth_call(d, xn) ==
    LET cand == Depth_candidate(d.divisor, d.min_value, xn)
    IN  [kind      |-> "return",
         x         |-> xn,
         candidate |-> cand,
         corrected |-> Depth_below(cand, xn),
         value     |-> Depth_apply(d.divisor, d.min_value, xn)]

NoDepth == [divisor |-> 0, min_value |-> 0, arg |-> None]

Divisors == 1..MaxDivisor

MinValues == {None} \cup {Some(m) : m \in (0 - NegMinValue)..MaxMinValue}

\* the targets 0, 1/TargetDen, ..., MaxTarget, and 100
Targets == (0..(MaxTarget * TargetDen)) \cup {100 * TargetDen}

MonoDivisors == 1..MonoMaxDivisor

MonoMinValues == {None} \cup {Some(m) : m \in 0..MonoMaxMinValue}

\* the integer targets 0..MonoMaxTarget
MonoTargets == {t * TargetDen : t \in 0..MonoMaxTarget}

\* d = Depth(divisor, min_value); a behaviour follows one closure
DepthBuild(D, M) ==
    /\ depth = NoDepth
    /\ \E divisor \in D, min_value \in M :
          depth' = Depth(divisor, min_value)
    /\ dcall' = NoCall
    /\ dprev' = NoCall
    /\ UNCHANGED <<pad, pcall, block, bcall>>

\* d(x)
DepthApply ==
    /\ depth # NoDepth
    /\ \E xn \in Targets : dcall' = Depth_call(depth, xn)
    /\ UNCHANGED <<depth, dprev, pad, pcall, block, bcall>>

\* d(x) after an earlier d(x0): dprev remembers the earlier call
DepthApplyAgain ==
    /\ depth # NoDepth
    /\ \E xn \in MonoTargets : dcall' = Depth_call(depth, xn)
    /\ dprev' = dcall
    /\ UNCHANGED <<depth, pad, pcall, block, bcall>>

-----------------------------------------------------------------------------
(* CorrectPad: lines 80-110 *)

\* a Python int, a tuple of two ints, or a function object (a closure)
PyInt(n) == [kind |-> "int", val |-> n]

PyTuple(a, b) == [kind |-> "tuple", val |-> <<a, b>>]

PyFunction(closure) == [kind |-> "function", val |-> closure]

\* Python's == on these values: values of different types are unequal
PyEq(a, b) == a.kind = b.kind /\ a.val = b.val

\* CorrectPad(kernel_size): the closure it returns holds kernel_size
CorrectPad(kernel_size) == [built |-> TRUE, kernel_size |-> kernel_size]

NoPad == [built |-> FALSE, kernel_size |-> PyInt(0)]

\* the names the body of CorrectPad's apply assigns (lines 94, 95, 98, 101,
\* 103, 104): each is a local of apply, and the kernel_size of the enclosing
\* CorrectPad is not visible in it
CorrectPad_apply_locals ==
    {"img_dim", "input_size", "kernel_size", "adjust", "correct"}

\* lines 100-108, on a kernel_size pair ks and input_size = (h, w)
CorrectPad_amounts(ks, input_size) ==
    IF IsNone(input_size[1])
    THEN Return(<< <<(ks[1] \div 2) - 1, ks[1] \div 2>>,
                   <<(ks[2] \div 2) - 1, ks[2] \div 2>> >>)
    ELSE IF IsNone(input_size[2])
    THEN Raise("TypeError")               \* line 103: None % 2
    ELSE Return(<< <<(ks[1] \div 2) - (1 - (Val(input_size[1]) % 2)), ks[1] \div 2>>,
                   <<(ks[2] \div 2) - (1 - (Val(input_size[2]) % 2)), ks[2] \div 2>> >>)

\* lines 93-108: apply(x), input_size = int_shape(x)[1:3].  Line 97 reads
\* kernel_size, a local of apply that nothing has assigned yet.
CorrectPad_apply(kernel_size, input_size) ==
    IF "kernel_size" \in CorrectPad_apply_locals
    THEN Raise("UnboundLocalError")
    ELSE CorrectPad_amounts(IF kernel_size.kind = "int"
                            THEN <<kernel_size.val, kernel_size.val>>
                            ELSE kernel_size.val,
                            input_size)

KernelSizes ==
    {PyInt(k) : k \in 1..MaxKernel}
        \cup {PyTuple(a, b) : a \in 1..MaxKernel, b \in 1..MaxKernel}

\* a spatial dimension: unknown, or 1..MaxDim
Dims == {None} \cup {Some(n) : n \in 1..MaxDim}

\* p = CorrectPad(kernel_size); a behaviour follows one closure
CorrectPadBuild ==
    /\ ~pad.built
    /\ \E kernel_size \in KernelSizes : pad' = CorrectPad(kernel_size)
    /\ pcall' = NoCall
    /\ UNCHANGED <<depth, dcall, dprev, block, bcall>>

\* p(x) for a feature map x of spatial size (h, w)
CorrectPadApply ==
    /\ pad.built
    /\ \E h \in Dims, w \in Dims :
          pcall' = [kind       |-> "called",
                    input_size |-> <<h, w>>,
                    outcome    |-> CorrectPad_apply(pad.kernel_size, <<h, w>>)]
    /\ UNCHANGED <<depth, dcall, dprev, pad, block, bcall>>

-----------------------------------------------------------------------------
(* InvertedResBlock: lines 142-230 *)

\* alpha in hundredths: the width factors of the module docstring (line 35)
Alphas == {35, 50, 75, 100, 130, 140}

Expansions == {1, 6}

Strides == {1, 2}

FilterCounts == {8, 16, 24, 32}

\* input channel counts
Channels == {8, 16, 24, 32}

\* spatial sizes of the block's input: unknown, or 1..MaxBlockDim
BlockDims == {None} \cup {Some(n) : n \in 1..MaxBlockDim}

\* lines 142-190: what the builder computes and hands to the layers.
\* Line 151 calls Depth(pointwise_conv_filters, 8): divisor is
\* pointwise_conv_filters, min_value is 8, and pointwise_filters is the
\* closure Depth returns, which the builder never calls.
InvertedResBlock(expansion, stride, alpha, filters, block_id) ==
    LET pointwise_conv_filters == (filters * alpha) \div 100
    IN  [built                  |-> TRUE,
         exc                    |-> None,
         expansion              |-> expansion,
         stride                 |-> stride,
         alpha                  |-> alpha,
         filters                |-> filters,
         block_id               |-> block_id,
         pointwise_conv_filters |-> pointwise_conv_filters,
         pointwise_filters      |->
             PyFunction(Depth(pointwise_conv_filters, Some(PointwiseDepthArg))),
         padding                |-> IF stride = 1 THEN "same" ELSE "valid"]

NoBlock == [built |-> FALSE, exc |-> None]

\* line 176: layers.Conv2D(pointwise_filters, ...).  The constructor is the
\* backend's: given an int it accepts; given anything else it may keep the
\* argument as it is or reject it.
Conv2D_accepts(filters) == IF filters.kind = "int" THEN {TRUE} ELSE BOOLEAN

\* the names the body of InvertedResBlock's apply assigns (lines 193, 195,
\* 210): each is a local of apply, and the prefix of line 146 is not visible
\* in it
InvertedResBlock_apply_locals == {"in_channels", "x", "prefix"}

\* the state of one run of apply: the feature map x (spatial size h, w and
\* channel count c), the layers applied so far, and the exception raised
Frame(x) == [x |-> x, trace |-> <<>>, exc |-> None, added |-> FALSE]

Raised(f, e) == [f EXCEPT !.exc = Some(e)]

\* lines 197-210
apply_expand(b, in_channels, f) ==
    IF b.block_id # 0
    THEN IF "prefix" \in InvertedResBlock_apply_locals
         THEN Raised(f, "UnboundLocalError")   \* line 205: prefix + "expand"
         ELSE [f EXCEPT !.x.c = PyInt(b.expansion * in_channels),
                        !.trace = @ \o <<"expand", "expand_BN", "expand_relu">>]
    ELSE f                                      \* line 210 binds prefix

\* ZeroPadding2D on one axis
Padded(n, amounts) ==
    IF IsNone(n) THEN None ELSE Some(Val(n) + amounts[1] + amounts[2])

\* lines 213-214
apply_pad(b, f) ==
    IF f.exc # None \/ b.stride # 2
    THEN f
    ELSE LET p == CorrectPad_apply(PyInt(DepthwiseKernel), <<f.x.h, f.x.w>>)
         IN  IF p.kind = "raise"
             THEN Raised(f, p.exc)
             ELSE [f EXCEPT !.x.h = Padded(@, p.value[1]),
                            !.x.w = Padded(@, p.value[2]),
                            !.trace = @ \o <<"pad">>]

\* the output size of a convolution on one axis: "same" gives ceil(n/s),
\* "valid" gives floor((n - k)/s) + 1
ConvOutput(n, k, s, padding) ==
    IF IsNone(n) THEN None
    ELSE IF padding = "same" THEN Some((Val(n) + s - 1) \div s)
    ELSE Some(((Val(n) - k) \div s) + 1)

\* lines 216-219
apply_depthwise(b, f) ==
    IF f.exc # None
    THEN f
    ELSE [f EXCEPT !.x.h = ConvOutput(@, DepthwiseKernel, b.stride, b.padding),
                   !.x.w = ConvOutput(@, DepthwiseKernel, b.stride, b.padding),
                   !.trace = @ \o <<"depthwise", "depthwise_BN", "depthwise_relu">>]

\* lines 222-223: the projection has pointwise_filters output channels
apply_project(b, f) ==
    IF f.exc # None
    THEN f
    ELSE [f EXCEPT !.x.c = b.pointwise_filters,
                   !.trace = @ \o <<"project", "project_BN">>]

\* lines 225-228
apply_residual(b, in_channels, f) ==
    IF f.exc # None
    THEN f
    ELSE IF PyEq(PyInt(in_channels), b.pointwise_filters) /\ b.stride = 1
    THEN [f EXCEPT !.trace = @ \o <<"add">>, !.added = TRUE]
    ELSE f

\* lines 192-228: apply(inputs)
InvertedResBlock_apply(b, inputs) ==
    LET in_channels == inputs.c
        x0 == [h |-> inputs.h, w |-> inputs.w, c |-> PyInt(inputs.c)]
        f  == apply_residual(b, in_channels,
                  apply_project(b,
                      apply_depthwise(b,
                          apply_pad(b,
                              apply_expand(b, in_channels, Frame(x0))))))
    IN  [kind   |-> IF f.exc = None THEN "return" ELSE "raise",
         inputs |-> inputs,
         x      |-> f.x,
         trace  |-> f.trace,
         exc    |-> f.exc,
         added  |-> f.added]

\* b = InvertedResBlock(expansion, stride, alpha, filters, block_id); a
\* behaviour follows one block
InvertedResBlockBuild ==
    /\ ~block.built
    /\ block.exc = None
    /\ \E expansion \in Expansions, stride \in Strides, alpha \in Alphas,
          filters \in FilterCounts, block_id \in 0..MaxBlockId :
          LET b == InvertedResBlock(expansion, stride, alpha, filters, block_id)
          IN  \E accepted \in Conv2D_accepts(b.pointwise_filters) :
                 block' = IF accepted
                          THEN b
                          ELSE [b EXCEPT !.built = FALSE,
                                         !.exc = Some("TypeError")]
    /\ bcall' = NoCall
    /\ UNCHANGED <<depth, dcall, dprev, pad, pcall>>

\* b(inputs) for a feature map of size (h, w) with c channels
InvertedResBlockApply ==
    /\ block.built
    /\ \E h \in BlockDims, w \in BlockDims, c \in Channels :
          bcall' = InvertedResBlock_apply(block, [h |-> h, w |-> w, c |-> c])
    /\ UNCHANGED <<depth, dcall, dprev, pad, pcall, block>>

Init ==
    /\ depth = NoDepth
    /\ dcall = NoCall
    /\ dprev = NoCall
    /\ pad = NoPad
    /\ pcall = NoCall
    /\ block = NoBlock
    /\ bcall = NoCall

DepthNext ==
    \/ DepthBuild(Divisors, MinValues)
    \/ DepthApply

DepthSpec == Init /\ [][DepthNext]_vars

MonoNext ==
    \/ DepthBuild(MonoDivisors, MonoMinValues)
    \/ DepthApplyAgain

MonoSpec == Init /\ [][MonoNext]_vars

PadNext ==
    \/ CorrectPadBuild
    \/ CorrectPadApply

PadSpec == Init /\ [][PadNext]_vars

Next ==
    \/ InvertedResBlockBuild
    \/ InvertedResBlockApply

Spec == Init /\ [][Next]_vars

-----------------------------------------------------------------------------
(* Properties of Depth's apply, under DepthSpec *)

DepthReturned == dcall.kind = "return"

IsNonNegMultiple(v, divisor) == v >= 0 /\ v % divisor = 0

\* C4: for every target >= 0, every divisor >= 1 and every min_value, the
\* value r the depth rounding returns satisfies r >= 0.9 * target
\* (10 r >= 9 target): one increment by divisor is always enough.
DepthAtLeastNineTenths ==
    DepthReturned => 10 * TargetDen * dcall.value >= 9 * dcall.x

\* C4 happens: the correction rule fired on a candidate below 0.9 * target
\* and the one step brought the result to 0.9 * target or more.
DepthCorrectionFired ==
    /\ DepthReturned
    /\ dcall.corrected
    /\ 10 * TargetDen * dcall.candidate < 9 * dcall.x
    /\ dcall.value = dcall.candidate + depth.divisor
    /\ 10 * TargetDen * dcall.value >= 9 * dcall.x

DepthOfHundred ==
    /\ DepthReturned
    /\ depth.divisor = DefaultDivisor
    /\ IsNone(depth.arg)
    /\ dcall.x = 100 * TargetDen

\* C6 as stated: target 100 with divisor 8 and the default min_value gives
\* the candidate 96 before correction and returns exactly 96.
DepthOfHundredIs96 ==
    DepthOfHundred => dcall.candidate = 96 /\ dcall.value = 96

\* C6 amended: target 100 with divisor 8 and the default min_value gives
\* the candidate 104 before correction (100 + 4 = 104 is a multiple of 8)
\* and returns exactly 104, uncorrected.
DepthOfHundredIs104 ==
    DepthOfHundred =>
        dcall.candidate = 104 /\ dcall.value = 104 /\ ~dcall.corrected

\* C6 amended happens: Depth(8)(100) was called and returned 104.
DepthOfHundredCalled == DepthOfHundred /\ dcall.value = 104

(* Monotonicity of Depth's apply, under MonoSpec *)

BothReturned == dprev.kind = "return" /\ dcall.kind = "return"

\* C10 as stated: for every divisor >= 1 and min_value >= 0 and all integer
\* targets 0 <= t1 <= t2, the result for t1 is <= the result for t2.
DepthMonotone ==
    (BothReturned /\ depth.min_value >= 0 /\ dprev.x <= dcall.x) =>
        dprev.value <= dcall.value

\* C10 amended: the same, for a min_value that is a multiple of divisor
\* (the default min_value = divisor is one).
DepthMonotoneOnMultiples ==
    (/\ BothReturned
     /\ depth.min_value >= 0
     /\ depth.min_value % depth.divisor = 0
     /\ dprev.x <= dcall.x) =>
        dprev.value <= dcall.value

\* C10 amended happens: min_value is a multiple of divisor, the correction
\* fired for the smaller target and not for the larger one.
DepthMonotoneAcrossCorrection ==
    /\ BothReturned
    /\ depth.min_value % depth.divisor = 0
    /\ dprev.x < dcall.x
    /\ dprev.corrected
    /\ ~dcall.corrected
    /\ dprev.value <= dcall.value

-----------------------------------------------------------------------------
(* Properties of CorrectPad's apply, under PadSpec *)

\* the kernel size as the pair (k0, k1)
KernelPair(kernel_size) ==
    IF kernel_size.kind = "int"
    THEN <<kernel_size.val, kernel_size.val>>
    ELSE kernel_size.val

\* the adjustment C7 states: (1, 1) if either dimension is unknown,
\* (1 - h % 2, 1 - w % 2) otherwise
StatedAdjust(input_size) ==
    IF IsNone(input_size[1]) \/ IsNone(input_size[2])
    THEN <<1, 1>>
    ELSE <<1 - (Val(input_size[1]) % 2), 1 - (Val(input_size[2]) % 2)>>

\* the padding C7 states
StatedPadding(kernel_size, input_size) ==
    LET k == KernelPair(kernel_size)
        a == StatedAdjust(input_size)
    IN  << <<(k[1] \div 2) - a[1], k[1] \div 2>>,
           <<(k[2] \div 2) - a[2], k[2] \div 2>> >>

\* C7: for every kernel size k and every input whose spatial dimensions are
\* each known or unknown, CorrectPad(k) applied to the input returns
\* ((k0//2 - a0, k0//2), (k1//2 - a1, k1//2)); for k = 3 that is
\* ((0,1),(0,1)) for known even and for unknown dimensions.
CorrectPadReturnsStatedPadding ==
    pcall.kind = "called" =>
        /\ pcall.outcome.kind = "return"
        /\ pcall.outcome.value = StatedPadding(pad.kernel_size, pcall.input_size)

-----------------------------------------------------------------------------
(* Properties of InvertedResBlock, under Spec *)

\* the builder ran lines 148-151
BlockConfigured == block.built \/ block.exc # None

\* apply ran to its end: it returned or raised
BlockApplied == bcall.kind \in {"return", "raise"}

\* round_channels(filters * alpha, divisor=8): the depth rounding with
\* divisor 8 and the default min_value, applied to the target as line 148
\* truncates it
RoundChannels(b) ==
    Depth_apply(DefaultDivisor, DefaultDivisor,
                b.pointwise_conv_filters * TargetDen)

\* C1: a block with stride 1 applied to an input whose channel count equals
\* the projected output channel count returns input + projected output: the
\* Add step is taken.
ResidualAdded ==
    (/\ BlockApplied
     /\ block.stride = 1
     /\ bcall.inputs.c = RoundChannels(block)) =>
        bcall.kind = "return" /\ bcall.added

\* C2: a block with stride 2, for every input channel count and every
\* configuration, never takes the Add step: applying it returns the
\* projected output unchanged.
Stride2ReturnsProjection ==
    (BlockApplied /\ block.stride = 2) =>
        /\ ~bcall.added
        /\ bcall.kind = "return"
        /\ bcall.trace # <<>>
        /\ bcall.trace[Len(bcall.trace)] = "project_BN"

\* C3: the projection of a block is a 1x1 convolution whose output channel
\* count is exactly the integer round_channels(filters * alpha, divisor=8).
ProjectionWidthIsRounded ==
    BlockConfigured =>
        PyEq(block.pointwise_filters, PyInt(RoundChannels(block)))

\* ceil(n / 2)
HalfUp(n) == (n + 1) \div 2

\* C8: for a known input dimension n, zero-padding by the pair CorrectPad
\* returns and then the stride-2 'valid' convolution gives ceil(n / 2) on
\* that axis, which is the path a stride-2 block takes; a stride-1 block
\* does no explicit pre-padding.
Stride2HalvesUp ==
    /\ (/\ BlockApplied
        /\ block.stride = 2
        /\ ~IsNone(bcall.inputs.h)
        /\ ~IsNone(bcall.inputs.w)) =>
            /\ bcall.kind = "return"
            /\ bcall.x.h = Some(HalfUp(Val(bcall.inputs.h)))
            /\ bcall.x.w = Some(HalfUp(Val(bcall.inputs.w)))
    /\ (BlockApplied /\ block.stride = 1) =>
            \A i \in 1..Len(bcall.trace) : bcall.trace[i] # "pad"

\* the steps C9 states, in order, before the residual decision
StatedSteps(b) ==
    (IF b.block_id # 0
     THEN <<"expand", "expand_BN", "expand_relu">>
     ELSE <<>>)
        \o (IF b.stride = 2 THEN <<"pad">> ELSE <<>>)
        \o <<"depthwise", "depthwise_BN", "depthwise_relu">>
        \o <<"project", "project_BN">>

\* C9: applying a block returns a feature map after these steps in this
\* order: the expansion iff block_id # 0, the zero-padding if stride is 2,
\* the depthwise step, the projection, then the residual decision.
StepsInOrder ==
    BlockApplied =>
        /\ bcall.kind = "return"
        /\ bcall.trace \in {StatedSteps(block), StatedSteps(block) \o <<"add">>}

=============================================================================
